---- MODULE Spec2Model ----
(***************************************************************************)
(* Model of the trip-planner backend: the /plan-trip handler of            *)
(* backend/main.py, the plan_trip driver, the five stage functions and the *)
(* LangGraph wiring of backend/trip_planner_agent.py, the lazily cached    *)
(* completion-service client, and the helper tools.                        *)
(*                                                                         *)
(* Texts (prompts, completions) are sequences of word tokens; a substring  *)
(* test of the source is a test on the lowercased tokens.  Amounts of      *)
(* money are integers in hundredths (cents), so 999.99 is 99999.           *)
(***************************************************************************)
EXTENDS Integers, Sequences, FiniteSets, TLC

VARIABLES
    settings_openai_api_key, \* settings.openai_api_key is set (truthy)
    llm,                     \* module global llm: 0 is None, n > 0 the n-th client built
    trip_planner_graph,      \* module global trip_planner_graph: 0 is None, n > 0 the n-th graph built
    llm_built,               \* number of times the ChatOpenAI constructor has run
    llm_returned,            \* the clients get_llm has returned so far
    graph_built,             \* number of times create_trip_planner_graph has run
    pc,                      \* per request slot: position of its handler / driver / stage
    request,                 \* per slot: the TripPlanRequest received
    trip_request,            \* per slot: the TripRequest the handler built
    state,                   \* per slot: the pipeline state (the graph's channels)
    node,                    \* per slot: the graph node that runs next
    executed,                \* per slot: the nodes whose stage function has been entered, in order
    calls,                   \* per slot: number of completion calls made
    completions,             \* per slot: the completions the service returned to this run, in order
    failure,                 \* per slot: the failed completion call, if any
    plan_outcome,            \* per slot: how plan_trip ended (returned a payload / raised)
    response,                \* per slot: what the handler produced
    call_log,                \* per slot: the message list of each completion call made, in order
    tool_args,               \* helper-tool harness: the arguments of the call
    tool_result              \* helper-tool harness: the value returned

vars == <<settings_openai_api_key, llm, trip_planner_graph, llm_built, llm_returned,
          graph_built, pc, request, trip_request, state, node, executed, calls,
          completions, failure, plan_outcome, response, call_log, tool_args,
          tool_result>>

globals == <<settings_openai_api_key, llm, trip_planner_graph, llm_built,
             llm_returned, graph_built>>
tool_vars == <<tool_args, tool_result>>

(***************************************************************************)
(* Bounds and input sets                                                   *)
(***************************************************************************)
MaxRuns == 2
Runs == 1..MaxRuns

Destinations == {"Paris", "Atlantis"}
Durations == {-1, 0, 3}
Budgets == {99999, 150000}
InterestLists == {<<>>, <<"art", "food">>}

\* Completion texts the service may return: empty, one naming a stage with
\* capitals, one naming another stage, one naming none.
Texts == {<<>>, <<"Research", "notes">>, <<"budget">>}
\* With interleaved runs the service answers each run with a text naming the
\* destination it was asked about.
ConcTexts(dest) == {<<"plan", dest>>}

\* Exception classes with their base class, and the errors a completion call
\* may raise: an error is its class and the message str(e) gives.
ErrorBase == [ValueError |-> "Exception", JSONDecodeError |-> "ValueError",
              RateLimitError |-> "Exception", HTTPException |-> "Exception"]
Errors == {[cls |-> "ValueError", message |-> <<"bad", "value">>],
           [cls |-> "JSONDecodeError", message |-> <<"bad", "json">>],
           [cls |-> "RateLimitError", message |-> <<"rate", "limit">>]}
ConcErrors == {[cls |-> "RateLimitError", message |-> <<"rate", "limit">>]}

AccommodationTypes == {"hotel", "hostel"}
TripPlanRequests ==
    [destination : Destinations, duration : Durations, budget : Budgets,
     interests : InterestLists, start_date : {"2025-06-01"},
     end_date : {"2025-06-04"}, accommodation_type : AccommodationTypes,
     transportation_type : {"flight"}]
\* With interleaved runs, neighbouring slots ask for different destinations.
ConcRequests(r) == {q \in TripPlanRequests :
                       /\ q.destination = (IF r % 2 = 1 THEN "Paris" ELSE "Atlantis")
                       /\ q.duration = 3 /\ q.budget = 150000
                       /\ q.interests = <<"art", "food">>
                       /\ q.accommodation_type = "hotel"}

(***************************************************************************)
(* Values                                                                  *)
(***************************************************************************)
NoRequest == [destination |-> "", duration |-> 0, budget |-> 0, interests |-> <<>>,
              start_date |-> "", end_date |-> "", accommodation_type |-> "",
              transportation_type |-> ""]
NoError == [cls |-> "", message |-> <<>>]
NoFailure == [stage |-> 0, error |-> NoError]
EmptyDict == [keys |-> {}, summary |-> <<>>]
\* A pipeline state is a dict: `keys` are the keys it holds; the fields of
\* keys it does not hold carry filler values that are never read.
NoState == [keys |-> {}, messages |-> <<>>, destination |-> "", duration |-> 0,
            budget |-> 0, interests |-> <<>>, final_plan |-> EmptyDict]

\* isinstance(e, cls) over the error classes above
IsInstance(e, cls) ==
    \/ e.cls = cls
    \/ ErrorBase[e.cls] = cls

\* str.lower() on the word tokens of the vocabulary
Lower(tok) ==
    CASE tok = "Research" -> "research"
      [] tok = "Budget" -> "budget"
      [] tok = "Itinerary" -> "itinerary"
      [] tok = "Accommodation" -> "accommodation"
      [] OTHER -> tok

\* `word in text.lower()`
ContainsLower(text, word) == \E i \in 1..Len(text) : Lower(text[i]) = word

\* dict.get(key, default) on a dict modelled as above
DictGet(d, key, default) == IF key \in d.keys THEN d[key] ELSE default

(***************************************************************************)
(* The graph: nodes, edges, channels                                       *)
(***************************************************************************)
END == "__end__"

\* workflow.add_edge(...): the successor of each node
Edges == [research_agent |-> "budget_agent",
          budget_agent |-> "itinerary_agent",
          itinerary_agent |-> "accommodation_agent",
          accommodation_agent |-> "coordinator_agent",
          coordinator_agent |-> END]

\* workflow.set_entry_point("research_agent")
EntryPoint == "research_agent"

StageOrder == <<"research_agent", "budget_agent", "itinerary_agent",
                "accommodation_agent", "coordinator_agent">>

\* The keys of TripPlanningState: the channels of the graph.
SchemaKeys == {"messages", "destination", "duration", "budget", "interests",
               "travel_dates", "accommodation_preferences",
               "transportation_preferences", "itinerary", "recommendations",
               "final_plan"}

\* The keyword router: the name it returns for the latest message.
should_continue(st) ==
    LET last_message == st.messages[Len(st.messages)]
    IN  IF ContainsLower(last_message.content, "research") THEN "research"
        ELSE IF ContainsLower(last_message.content, "budget") THEN "budget"
        ELSE IF ContainsLower(last_message.content, "itinerary") THEN "itinerary"
        ELSE IF ContainsLower(last_message.content, "accommodation") THEN "accommodation"
        ELSE "coordinator"

\* A wiring that routes every node through should_continue.
NextNodeRouted(n, st) ==
    IF n = "coordinator_agent" THEN END
    ELSE LET to == should_continue(st)
         IN  CASE to = "research" -> "research_agent"
               [] to = "budget" -> "budget_agent"
               [] to = "itinerary" -> "itinerary_agent"
               [] to = "accommodation" -> "accommodation_agent"
               [] OTHER -> "coordinator_agent"

\* The node that runs after node n has produced state st.
NextNode(n, st) == Edges[n]

\* A reducer that keeps only the update.
add_messages_replace(left, right) == right

\* The reducer of the messages channel: a message whose id is already in the
\* history replaces that entry, any other message is appended.
RECURSIVE add_messages(_, _)
add_messages(left, right) ==
    IF right = <<>> THEN left
    ELSE LET m == Head(right)
             same == {i \in 1..Len(left) : left[i].id = m.id}
             merged == IF same = {} THEN Append(left, m)
                       ELSE [left EXCEPT ![CHOOSE i \in same : TRUE] = m]
         IN  add_messages(merged, Tail(right))

\* The graph applies a node's returned dict to the channels: messages through
\* its reducer, every other key by overwriting.
ApplyUpdate(chs, upd) ==
    [keys |-> chs.keys \cup (upd.keys \cap SchemaKeys),
     messages |-> IF "messages" \in upd.keys
                  THEN add_messages(chs.messages, upd.messages)
                  ELSE chs.messages,
     destination |-> IF "destination" \in upd.keys THEN upd.destination ELSE chs.destination,
     duration |-> IF "duration" \in upd.keys THEN upd.duration ELSE chs.duration,
     budget |-> IF "budget" \in upd.keys THEN upd.budget ELSE chs.budget,
     interests |-> IF "interests" \in upd.keys THEN upd.interests ELSE chs.interests,
     final_plan |-> IF "final_plan" \in upd.keys THEN upd.final_plan ELSE chs.final_plan]

(***************************************************************************)
(* Stage functions: the dict each returns for input state st and the       *)
(* completion `resp` its call returned                                     *)
(***************************************************************************)
research_agent(st, resp) == [st EXCEPT !.keys = @ \cup {"messages"}, !.messages = <<resp>>]
\* A budget stage that already stores its completion as the final plan.
budget_agent_writes_plan(st, resp) ==
    [st EXCEPT !.keys = @ \cup {"messages", "final_plan"},
               !.messages = <<resp>>,
               !.final_plan = [keys |-> {"summary"}, summary |-> resp.content]]

budget_agent(st, resp) == [st EXCEPT !.keys = @ \cup {"messages"}, !.messages = <<resp>>]
itinerary_agent(st, resp) == [st EXCEPT !.keys = @ \cup {"messages"}, !.messages = <<resp>>]
accommodation_agent(st, resp) == [st EXCEPT !.keys = @ \cup {"messages"}, !.messages = <<resp>>]

\* A coordinator that forgets the final plan.
coordinator_agent_noplan(st, resp) == [st EXCEPT !.keys = @ \cup {"messages"}, !.messages = <<resp>>]

coordinator_agent(st, resp) ==
    [st EXCEPT !.keys = @ \cup {"messages", "final_plan"},
               !.messages = <<resp>>,
               !.final_plan = [keys |-> {"summary"}, summary |-> resp.content]]

\* workflow.add_node(name, fn): the function of each node
NodeFn(n, st, resp) ==
    CASE n = "research_agent" -> research_agent(st, resp)
      [] n = "budget_agent" -> budget_agent(st, resp)
      [] n = "itinerary_agent" -> itinerary_agent(st, resp)
      [] n = "accommodation_agent" -> accommodation_agent(st, resp)
      [] n = "coordinator_agent" -> coordinator_agent(st, resp)

(***************************************************************************)
(* The completion call of a stage: its system instruction (the words that  *)
(* name the role, the tool and the request fields it embeds) and the       *)
(* message list it submits                                                 *)
(***************************************************************************)
SystemMessage(content) == [id |-> <<>>, content |-> content, type |-> "system"]

\* str() of a float amount of whole cents, as an f-string renders it:
\* 1500.0, 999.99, 12.5, 0.05
FormatFloat(cents) ==
    LET whole == cents \div 100
        frac == cents % 100
    IN  ToString(whole) \o "." \o
        (IF frac % 10 = 0 THEN ToString(frac \div 10)
         ELSE ToString(frac \div 10) \o ToString(frac % 10))

\* ', '.join(interests)
RECURSIVE Join(_)
Join(interests) ==
    IF Len(interests) <= 1 THEN interests
    ELSE <<Head(interests), ",">> \o Join(Tail(interests))

research_prompt(st) ==
    LET destination == DictGet(st, "destination", "Unknown")
    IN  <<"travel", "research", "specialist", destination,
          "research_destination", destination, destination, destination>>
budget_prompt(st) == <<"budget", "planning", "specialist", "calculate_budget_breakdown">>
itinerary_prompt(st) == <<"itinerary", "planning", "specialist", "generate_itinerary">>
accommodation_prompt(st) == <<"accommodation", "specialist", "find_accommodations">>
coordinator_prompt(st) ==
    LET destination == DictGet(st, "destination", "Unknown")
        duration == DictGet(st, "duration", 0)
        budget == DictGet(st, "budget", 0)
        interests == DictGet(st, "interests", <<>>)
    IN  <<"trip", "planning", "coordinator", destination,
          "Destination:", destination,
          "Duration:", ToString(duration), "days",
          "Budget:", "$", FormatFloat(budget),
          "Interests:">>
        \o (IF interests # <<>> THEN Join(interests) ELSE <<"General travel">>)
        \o <<"overview", destination, "breakdown", "$", FormatFloat(budget),
             ToString(duration), "-day", "itinerary", destination,
             "Accommodation", destination, "tips", destination, destination>>

SystemPrompt(n, st) ==
    CASE n = "research_agent" -> research_prompt(st)
      [] n = "budget_agent" -> budget_prompt(st)
      [] n = "itinerary_agent" -> itinerary_prompt(st)
      [] n = "accommodation_agent" -> accommodation_prompt(st)
      [] n = "coordinator_agent" -> coordinator_prompt(st)

\* A call that submits the instruction alone.
CallInputNoHistory(n, st) == <<SystemMessage(SystemPrompt(n, st))>>

\* [SystemMessage(content=system_prompt), *messages]
CallInput(n, st) == <<SystemMessage(SystemPrompt(n, st))>> \o st.messages

(***************************************************************************)
(* The driver plan_trip and the handler create_trip_plan                   *)
(***************************************************************************)
\* A conversion that drops the interests (leaving the default empty list).
TripRequestNoInterests(q) == [q EXCEPT !.interests = <<>>]

\* TripRequest(destination=request.destination, ...): field by field
TripRequestOf(q) ==
    [destination |-> q.destination, duration |-> q.duration, budget |-> q.budget,
     interests |-> q.interests, start_date |-> q.start_date,
     end_date |-> q.end_date, accommodation_type |-> q.accommodation_type,
     transportation_type |-> q.transportation_type]

\* initial_state of plan_trip
InitialState(tr) ==
    [keys |-> {"messages", "destination", "duration", "budget", "interests",
               "start_date", "end_date", "accommodation_type",
               "transportation_type"},
     messages |-> <<>>, destination |-> tr.destination, duration |-> tr.duration,
     budget |-> tr.budget, interests |-> tr.interests, final_plan |-> EmptyDict]

\* graph.invoke(initial_state): input keys that are no channel are dropped
GraphInput(init) == [init EXCEPT !.keys = @ \cap SchemaKeys]

\* A read that hands every run the state of the first slot.
ReadStateShared(states, r) == states[CHOOSE x \in Runs : \A y \in Runs : x <= y]

\* The state the graph hands to the node of run r: that run's own channels.
ReadState(states, r) == states[r]

DefaultSummary == <<"Trip", "plan", "generated", "successfully">>

\* The "messages" list of the result: five f-strings over the request.
ProgressMessages(tr) ==
    << <<"Research", "completed", "for", tr.destination>>,
       <<"Budget", "analysis", "completed", "for", "$" \o FormatFloat(tr.budget)>>,
       <<"Itinerary", "created", "for", ToString(tr.duration), "days">>,
       <<"Accommodation", "recommendations", "for", tr.accommodation_type>>,
       <<"Trip", "plan", "coordination", "completed">> >>

\* The fields of final_plan that are read from the final state.
PlanFields(final_state, tr) ==
    LET final_plan_data == DictGet(final_state, "final_plan", EmptyDict)
    IN  [summary |-> DictGet(final_plan_data, "summary", DefaultSummary),
         destination |-> DictGet(final_state, "destination", tr.destination),
         duration |-> DictGet(final_state, "duration", tr.duration),
         budget |-> DictGet(final_state, "budget", tr.budget),
         interests |-> DictGet(final_state, "interests", tr.interests),
         itinerary |-> DictGet(final_state, "itinerary", <<>>),
         accommodation |-> DictGet(final_state, "accommodation", EmptyDict),
         transportation |-> DictGet(final_state, "transportation", EmptyDict),
         budget_breakdown |-> DictGet(final_state, "budget_breakdown", EmptyDict),
         recommendations |-> DictGet(final_state, "recommendations", <<>>),
         tips |-> DictGet(final_state, "tips", <<>>)]

\* A result that reports the completions: the progress messages are the
\* texts of the history and the tips are the first of them.
PayloadFromHistory(final_state, tr) ==
    [final_plan |->
        [PlanFields(final_state, tr) EXCEPT
            !.tips = IF final_state.messages = <<>> THEN <<>>
                     ELSE final_state.messages[1].content],
     messages |-> [i \in 1..Len(final_state.messages) |->
                      final_state.messages[i].content],
     destination |-> tr.destination,
     duration |-> tr.duration,
     budget |-> tr.budget,
     interests |-> tr.interests]

\* result of plan_trip, lines 409-436 (workflow_id, a fresh uuid, left out)
Payload(final_state, tr) ==
    [final_plan |-> PlanFields(final_state, tr),
     messages |-> ProgressMessages(tr),
     destination |-> tr.destination,
     duration |-> tr.duration,
     budget |-> tr.budget,
     interests |-> tr.interests]

NoPayload == Payload(NoState, NoRequest)

\* plan_trip has not ended (or was not called).
NoOutcome == [kind |-> "none", payload |-> NoPayload, error |-> NoError]

\* An except clause that swallows the error and returns the default payload.
PlanTripExceptSwallow(e, tr) ==
    [kind |-> "returned", payload |-> Payload(NoState, tr), error |-> NoError]

\* except Exception as e: ... raise e
PlanTripExcept(e, tr) == [kind |-> "raised", payload |-> NoPayload, error |-> e]

\* A check that lets every request through.
KeyConfiguredAlways(key) == TRUE

\* if not settings.openai_api_key
KeyConfigured(key) == key

ConfigError == [cls |-> "HTTPException",
                message |-> <<"OpenAI", "API", "key", "not", "configured">>]

NoResponse == [kind |-> "none", success |-> FALSE, data |-> NoPayload,
               error |-> NoError, message |-> <<>>]

\* An except clause that catches every exception.
HandlerExceptAll(e) ==
    [kind |-> "response", success |-> FALSE, data |-> NoPayload,
     error |-> NoError, message |-> e.message]

\* except ValueError as e: return TripPlanResponse(success=False, error=str(e));
\* any other exception leaves the handler.
HandlerExcept(e) ==
    IF IsInstance(e, "ValueError")
    THEN [kind |-> "response", success |-> FALSE, data |-> NoPayload,
          error |-> NoError, message |-> e.message]
    ELSE [kind |-> "raised", success |-> FALSE, data |-> NoPayload,
          error |-> e, message |-> <<>>]

\* return TripPlanResponse(success=True, data=result)
HandlerReturn(result) ==
    [kind |-> "response", success |-> TRUE, data |-> result,
     error |-> NoError, message |-> <<>>]

(***************************************************************************)
(* Floating point.  Python floats are IEEE doubles; the helper tools        *)
(* multiply and divide them, so their results carry rounding.  A natural    *)
(* number of any size is a sequence of digits in base 2^15, lowest first,   *)
(* with no high zero digit; a non-negative double is n * 2^e with n odd (or *)
(* n zero and e zero), n below 2^53.  Exponents stay far from the limits of *)
(* the double's range.                                                      *)
(***************************************************************************)
LimbBits == 15
Limb == 2 ^ LimbBits

RECURSIVE NatLimbs(_)
NatLimbs(i) == IF i = 0 THEN <<>> ELSE <<i % Limb>> \o NatLimbs(i \div Limb)

BTrim(a) ==
    IF \A i \in 1..Len(a) : a[i] = 0 THEN <<>>
    ELSE SubSeq(a, 1, CHOOSE i \in 1..Len(a) :
                         a[i] # 0 /\ \A j \in (i + 1)..Len(a) : a[j] = 0)

RECURSIVE BAddC(_, _, _)
BAddC(a, b, c) ==
    IF a = <<>> /\ b = <<>> THEN (IF c = 0 THEN <<>> ELSE <<c>>)
    ELSE LET x == IF a = <<>> THEN 0 ELSE Head(a)
             y == IF b = <<>> THEN 0 ELSE Head(b)
             ta == IF a = <<>> THEN <<>> ELSE Tail(a)
             tb == IF b = <<>> THEN <<>> ELSE Tail(b)
         IN  <<(x + y + c) % Limb>> \o BAddC(ta, tb, (x + y + c) \div Limb)

BAdd(a, b) == BAddC(a, b, 0)

\* a - b for a >= b
RECURSIVE BSubC(_, _, _)
BSubC(a, b, c) ==
    IF a = <<>> THEN <<>>
    ELSE LET y == IF b = <<>> THEN 0 ELSE Head(b)
             tb == IF b = <<>> THEN <<>> ELSE Tail(b)
             d == Head(a) - y - c
         IN  <<d % Limb>> \o BSubC(Tail(a), tb, IF d < 0 THEN 1 ELSE 0)

BSub(a, b) == BTrim(BSubC(a, b, 0))

\* a <= b
BLeq(a, b) ==
    \/ Len(a) < Len(b)
    \/ /\ Len(a) = Len(b)
       /\ \/ a = b
          \/ \E i \in 1..Len(a) :
                /\ a[i] < b[i]
                /\ \A j \in (i + 1)..Len(a) : a[j] = b[j]

\* a * m for a digit m
RECURSIVE BMulSmallC(_, _, _)
BMulSmallC(a, m, c) ==
    IF a = <<>> THEN (IF c = 0 THEN <<>> ELSE <<c>>)
    ELSE <<(Head(a) * m + c) % Limb>> \o BMulSmallC(Tail(a), m, (Head(a) * m + c) \div Limb)

BMulSmall(a, m) == IF m = 0 THEN <<>> ELSE BMulSmallC(a, m, 0)

RECURSIVE BMul(_, _)
BMul(a, b) ==
    IF a = <<>> \/ b = <<>> THEN <<>>
    ELSE LET rest == BMul(a, Tail(b))
         IN  BAdd(BMulSmall(a, Head(b)),
                  IF rest = <<>> THEN <<>> ELSE <<0>> \o rest)

\* Long division of a by a digit d > 0, highest digit first: the quotient q
\* and the remainder r.
RECURSIVE BDivFrom(_, _, _, _, _)
BDivFrom(a, d, i, q, r) ==
    IF i = 0 THEN [q |-> BTrim(q), r |-> r]
    ELSE LET v == Limb * r + a[i]
         IN  BDivFrom(a, d, i - 1, <<v \div d>> \o q, v % d)

BDivSmall(a, d) == BDivFrom(a, d, Len(a), <<>>, 0)

\* a * 2^k and the integer part of a / 2^k
BShl(a, k) ==
    IF a = <<>> THEN <<>>
    ELSE [i \in 1..(k \div LimbBits) |-> 0] \o BMulSmall(a, 2 ^ (k % LimbBits))
BShr(a, k) ==
    IF k \div LimbBits >= Len(a) THEN <<>>
    ELSE BDivSmall(SubSeq(a, k \div LimbBits + 1, Len(a)), 2 ^ (k % LimbBits)).q

\* The i-th binary digit of a (the lowest is the first), and the number of
\* binary digits of a.
BBit(a, i) ==
    IF (i - 1) \div LimbBits >= Len(a) THEN 0
    ELSE (a[(i - 1) \div LimbBits + 1] \div 2 ^ ((i - 1) % LimbBits)) % 2
BBitLen(a) ==
    IF a = <<>> THEN 0
    ELSE LimbBits * (Len(a) - 1)
         + (CHOOSE k \in 1..LimbBits : 2 ^ (k - 1) <= a[Len(a)] /\ a[Len(a)] < 2 ^ k)

\* Number of zero binary digits at the low end of a non-zero a.
LowZeros(a) ==
    (CHOOSE i \in 1..BBitLen(a) :
        BBit(a, i) = 1 /\ \A j \in 1..(i - 1) : BBit(a, j) = 0) - 1

\* n * 2^e in the unique form with n odd.
FCanon(n, e) ==
    IF n = <<>> THEN [n |-> <<>>, e |-> 0]
    ELSE [n |-> BShr(n, LowZeros(n)), e |-> e + LowZeros(n)]

\* Round n * 2^e (plus a non-zero part below the last digit of n when
\* sticky) to 53 significant bits, to nearest, ties to even.
FRound(n, e, sticky) ==
    IF BBitLen(n) <= 53 THEN FCanon(n, e)
    ELSE LET sh == BBitLen(n) - 53
             kept == BShr(n, sh)
             rest == sticky \/ \E i \in 1..(sh - 1) : BBit(n, i) = 1
             up == BBit(n, sh) = 1 /\ (rest \/ BBit(kept, 1) = 1)
         IN  FCanon(IF up THEN BAdd(kept, <<1>>) ELSE kept, e + sh)

FMin(x, y) == IF x <= y THEN x ELSE y

\* The exact sum of two doubles, not rounded.
FExactAdd(x, y) ==
    IF x.n = <<>> THEN y
    ELSE IF y.n = <<>> THEN x
    ELSE LET e == FMin(x.e, y.e)
         IN  [n |-> BAdd(BShl(x.n, x.e - e), BShl(y.n, y.e - e)), e |-> e]

\* x + y, x * y, x / d of doubles (d a positive integer below 2^15, exact
\* as a double)
FAdd(x, y) == LET z == FExactAdd(x, y) IN FRound(z.n, z.e, FALSE)
FMul(x, y) == FRound(BMul(x.n, y.n), x.e + y.e, FALSE)
FDivInt(x, d) ==
    LET qr == BDivSmall(BShl(x.n, 90), d)
    IN  FRound(qr.q, x.e - 90, qr.r # 0)

\* float(i) for an integer i >= 0, and the double that a decimal literal
\* of c hundredths or t tenths denotes: the nearest double.
FromInt(i) == FCanon(NatLimbs(i), 0)
FromCents(c) == FDivInt(FromInt(c), 100)
FromTenths(t) == FDivInt(FromInt(t), 10)

(***************************************************************************)
(* Helper tools                                                            *)
(***************************************************************************)
BudgetTierLimit == 100000    \* 1000 in cents
MidRangeTierLimit == 300000  \* 3000 in cents

\* The three tiers; a price is budget * percent, in units of 1/10000, and a
\* rating is in tenths.
accommodations(budget) ==
    [budget |-> <<[name |-> "Budget Hostel", price |-> budget * 20, rating |-> 35],
                  [name |-> "Guesthouse", price |-> budget * 25, rating |-> 40]>>,
     mid_range |-> <<[name |-> "3-Star Hotel", price |-> budget * 30, rating |-> 42],
                     [name |-> "Boutique Hotel", price |-> budget * 35, rating |-> 45]>>,
     luxury |-> <<[name |-> "5-Star Hotel", price |-> budget * 50, rating |-> 48],
                  [name |-> "Luxury Resort", price |-> budget * 60, rating |-> 49]>>]

\* A tier choice with the comparisons off by one.
category_inclusive(budget) ==
    IF budget <= BudgetTierLimit THEN "budget"
    ELSE IF budget <= MidRangeTierLimit THEN "mid_range"
    ELSE "luxury"

\* Determine budget category
category(budget) ==
    IF budget < BudgetTierLimit THEN "budget"
    ELSE IF budget < MidRangeTierLimit THEN "mid_range"
    ELSE "luxury"

\* The list find_accommodations serialises as its result.
find_accommodations(destination, budget, accommodation_type) ==
    accommodations(budget)[category(budget)]

\* Percentages of calculate_budget_breakdown, in tenths (0.4, 0.3, 0.2, 0.1)
accommodation_percent == 4
food_percent == 3
activities_percent == 2
transportation_percent == 1

\* A breakdown whose shares do not add up (transportation takes 0.2).
calculate_budget_breakdown_skewed(budget, duration, destination) ==
    IF duration = 0 THEN [error |-> "ZeroDivisionError", value |-> <<>>]
    ELSE [error |-> "",
          value |-> [accommodation |-> FMul(FromCents(budget), FromTenths(accommodation_percent)),
                     food |-> FMul(FromCents(budget), FromTenths(food_percent)),
                     activities |-> FMul(FromCents(budget), FromTenths(activities_percent)),
                     transportation |-> FMul(FromCents(budget), FromTenths(activities_percent)),
                     daily_budget |-> [neg |-> duration < 0,
                                       abs |-> FDivInt(FromCents(budget),
                                                  IF duration < 0 THEN -duration ELSE duration)],
                     total_budget |-> FromCents(budget)]]

\* The dict calculate_budget_breakdown serialises, or the error it raises;
\* budget (>= 0) is given in cents and is the double of that decimal.
calculate_budget_breakdown(budget, duration, destination) ==
    IF duration = 0 THEN [error |-> "ZeroDivisionError", value |-> <<>>]
    ELSE [error |-> "",
          value |-> [accommodation |-> FMul(FromCents(budget), FromTenths(accommodation_percent)),
                     food |-> FMul(FromCents(budget), FromTenths(food_percent)),
                     activities |-> FMul(FromCents(budget), FromTenths(activities_percent)),
                     transportation |-> FMul(FromCents(budget), FromTenths(transportation_percent)),
                     daily_budget |-> [neg |-> duration < 0,
                                       abs |-> FDivInt(FromCents(budget),
                                                  IF duration < 0 THEN -duration ELSE duration)],
                     total_budget |-> FromCents(budget)]]

\* The plan of one day; estimated_cost is budget / duration * 0.3.
day_plan(day, destination, duration, interests, budget) ==
    [day |-> day,
     morning |-> <<"Explore", destination, "-", "Visit", "local", "attractions">>,
     afternoon |-> <<"Enjoy", IF interests # <<>> THEN interests[1] ELSE "local culture">>,
     evening |-> <<"Dinner", "at", "local", "restaurant">>,
     estimated_cost |-> FMul(FDivInt(FromCents(budget), duration), FromTenths(3))]

\* An itinerary built over range(duration): days 0 .. duration - 1.
generate_itinerary_from_zero(destination, duration, interests, budget) ==
    [i \in 1..duration |-> day_plan(i - 1, destination, duration, interests, budget)]

\* The list generate_itinerary serialises: one plan per day of
\* range(1, duration + 1), which is empty for duration <= 0.
generate_itinerary(destination, duration, interests, budget) ==
    [i \in 1..duration |-> day_plan(i, destination, duration, interests, budget)]

MaxDuration == 3

ToolBudgets == {-1, 0, 1, 99999, 100000, 100001, 150000, 299999, 300000, 300001, 500000}
ToolDestinations == {"Paris", "Tokyo", "Atlantis"}
ToolAccommodationTypes == {"hotel", "hostel"}
\* Budgets (>= 0, in cents) and durations of the calls of the two tools that
\* compute in floating point: 1.00, 7.00 and 999.99 have inexact shares.
FloatBudgets == {0, 100, 700, 99999, 100000, 150000}
ToolDurations == (-1)..MaxDuration
ToolInputs ==
    [tool : {"find_accommodations"}, destination : ToolDestinations,
     budget : ToolBudgets, accommodation_type : ToolAccommodationTypes,
     duration : {1}, interests : {<<>>}]
    \cup
    [tool : {"calculate_budget_breakdown"}, destination : ToolDestinations,
     budget : FloatBudgets, accommodation_type : {""},
     duration : ToolDurations, interests : {<<>>}]
    \cup
    [tool : {"generate_itinerary"}, destination : {"Paris", "Atlantis"},
     budget : {0, 99999, 150000}, accommodation_type : {""},
     duration : ToolDurations, interests : {<<>>, <<"art", "food">>, <<"food">>}]
NoToolArgs == [tool |-> "none", destination |-> "", budget |-> 0,
               accommodation_type |-> "", duration |-> 0, interests |-> <<>>]
NoToolResult == [returned |-> FALSE, error |-> "", value |-> <<>>]

(***************************************************************************)
(* State machine                                                           *)
(***************************************************************************)
Init ==
    /\ settings_openai_api_key \in BOOLEAN
    /\ llm = 0
    /\ trip_planner_graph = 0
    /\ llm_built = 0
    /\ llm_returned = {}
    /\ graph_built = 0
    /\ pc = [r \in Runs |-> "idle"]
    /\ request = [r \in Runs |-> NoRequest]
    /\ trip_request = [r \in Runs |-> NoRequest]
    /\ state = [r \in Runs |-> NoState]
    /\ node = [r \in Runs |-> END]
    /\ executed = [r \in Runs |-> <<>>]
    /\ calls = [r \in Runs |-> 0]
    /\ completions = [r \in Runs |-> <<>>]
    /\ failure = [r \in Runs |-> NoFailure]
    /\ plan_outcome = [r \in Runs |-> NoOutcome]
    /\ response = [r \in Runs |-> NoResponse]
    /\ call_log = [r \in Runs |-> <<>>]
    /\ tool_args = NoToolArgs
    /\ tool_result = NoToolResult

\* create_trip_plan up to the call of plan_trip (main.py 105-120).  With
\* `serial` the handler starts only when no other request is in progress:
\* the handler is a coroutine that never awaits, so the event loop runs one
\* request to its end before it starts the next.
CreateTripPlan(r, q, serial) ==
    /\ pc[r] = "idle"
    /\ serial => \A o \in Runs : pc[o] = "idle"
    /\ request' = [request EXCEPT ![r] = q]
    /\ IF ~KeyConfigured(settings_openai_api_key)
       THEN /\ response' = [response EXCEPT ![r] = HandlerExcept(ConfigError)]
            /\ pc' = [pc EXCEPT ![r] = "responded"]
            /\ UNCHANGED trip_request
       ELSE /\ trip_request' = [trip_request EXCEPT ![r] = TripRequestOf(q)]
            /\ pc' = [pc EXCEPT ![r] = "plan_trip"]
            /\ UNCHANGED response
    /\ UNCHANGED <<globals, state, node, executed, calls, completions, failure,
                   plan_outcome, call_log, tool_vars>>

\* plan_trip entry: get_trip_planner_graph finds the graph cached and the
\* run starts, or finds no graph and goes on to build one.
PlanTripEnter(r) ==
    /\ pc[r] = "plan_trip"
    /\ IF trip_planner_graph = 0
       THEN /\ pc' = [pc EXCEPT ![r] = "graph_create"]
            /\ UNCHANGED <<state, node>>
       ELSE /\ state' = [state EXCEPT ![r] = GraphInput(InitialState(trip_request[r]))]
            /\ node' = [node EXCEPT ![r] = EntryPoint]
            /\ pc' = [pc EXCEPT ![r] = "stage"]
    /\ UNCHANGED <<globals, request, trip_request, executed, calls, completions,
                   failure, plan_outcome, response, call_log, tool_vars>>

\* trip_planner_graph = create_trip_planner_graph(), then the run starts.
GraphCreate(r) ==
    /\ pc[r] = "graph_create"
    /\ graph_built' = graph_built + 1
    /\ trip_planner_graph' = graph_built'
    /\ state' = [state EXCEPT ![r] = GraphInput(InitialState(trip_request[r]))]
    /\ node' = [node EXCEPT ![r] = EntryPoint]
    /\ pc' = [pc EXCEPT ![r] = "stage"]
    /\ UNCHANGED <<settings_openai_api_key, llm, llm_built, llm_returned, request,
                   trip_request, executed, calls, completions, failure,
                   plan_outcome, response, call_log, tool_vars>>

\* A stage function is entered and calls get_llm, which tests `llm is None`.
StageEnter(r) ==
    /\ pc[r] = "stage"
    /\ executed' = [executed EXCEPT ![r] = Append(@, node[r])]
    /\ IF llm = 0
       THEN /\ pc' = [pc EXCEPT ![r] = "llm_construct"]
            /\ UNCHANGED llm_returned
       ELSE /\ llm_returned' = llm_returned \cup {llm}
            /\ pc' = [pc EXCEPT ![r] = "llm_invoke"]
    /\ UNCHANGED <<settings_openai_api_key, llm, trip_planner_graph, llm_built,
                   graph_built, request, trip_request, state, node, calls,
                   completions, failure, plan_outcome, response, call_log, tool_vars>>

\* get_llm after it found no client: llm = ChatOpenAI(...); return llm
LlmConstruct(r) ==
    /\ pc[r] = "llm_construct"
    /\ llm_built' = llm_built + 1
    /\ llm' = llm_built'
    /\ llm_returned' = llm_returned \cup {llm'}
    /\ pc' = [pc EXCEPT ![r] = "llm_invoke"]
    /\ UNCHANGED <<settings_openai_api_key, trip_planner_graph, graph_built, request,
                   trip_request, state, node, executed, calls, completions,
                   failure, plan_outcome, response, call_log, tool_vars>>

\* The completion call returns text t: the stage returns its dict, the graph
\* applies it and moves to the next node.
LlmInvokeOk(r, t) ==
    /\ pc[r] = "llm_invoke"
    /\ LET resp == [id |-> <<r, calls[r] + 1>>, content |-> t, type |-> "ai"]
           new == ApplyUpdate(state[r], NodeFn(node[r], ReadState(state, r), resp))
           to == NextNode(node[r], new)
       IN  /\ calls' = [calls EXCEPT ![r] = @ + 1]
           /\ completions' = [completions EXCEPT ![r] = Append(@, resp)]
           /\ state' = [state EXCEPT ![r] = new]
           /\ node' = [node EXCEPT ![r] = to]
           /\ pc' = [pc EXCEPT ![r] = IF to = END THEN "extract" ELSE "stage"]
    /\ call_log' = [call_log EXCEPT
                        ![r] = Append(@, CallInput(node[r], ReadState(state, r)))]
    /\ UNCHANGED <<globals, request, trip_request, executed, failure,
                   plan_outcome, response, tool_vars>>

\* The completion call raises e: no stage catches it, graph.invoke lets it
\* through, and plan_trip's except clause gets it.
LlmInvokeFail(r, e) ==
    /\ pc[r] = "llm_invoke"
    /\ calls' = [calls EXCEPT ![r] = @ + 1]
    /\ failure' = [failure EXCEPT ![r] = [stage |-> Len(executed[r]), error |-> e]]
    /\ plan_outcome' = [plan_outcome EXCEPT ![r] = PlanTripExcept(e, trip_request[r])]
    /\ pc' = [pc EXCEPT ![r] = "plan_exit"]
    /\ call_log' = [call_log EXCEPT
                        ![r] = Append(@, CallInput(node[r], ReadState(state, r)))]
    /\ UNCHANGED <<globals, request, trip_request, state, node, executed,
                   completions, response, tool_vars>>

\* The graph reached END: plan_trip builds the result and returns it.
Extract(r) ==
    /\ pc[r] = "extract"
    /\ plan_outcome' = [plan_outcome EXCEPT ![r] =
            [kind |-> "returned", payload |-> Payload(state[r], trip_request[r]),
             error |-> NoError]]
    /\ pc' = [pc EXCEPT ![r] = "plan_exit"]
    /\ UNCHANGED <<globals, request, trip_request, state, node, executed, calls,
                   completions, failure, response, call_log, tool_vars>>

\* Back in create_trip_plan: the result is wrapped, or the error meets the
\* except clause.
HandlerFinish(r) ==
    /\ pc[r] = "plan_exit"
    /\ response' = [response EXCEPT ![r] =
            IF plan_outcome[r].kind = "returned"
            THEN HandlerReturn(plan_outcome[r].payload)
            ELSE HandlerExcept(plan_outcome[r].error)]
    /\ pc' = [pc EXCEPT ![r] = "responded"]
    /\ UNCHANGED <<globals, request, trip_request, state, node, executed, calls,
                   completions, failure, plan_outcome, call_log, tool_vars>>

\* The response is sent; nothing of the request is kept.
Finish(r) ==
    /\ pc[r] = "responded"
    /\ pc' = [pc EXCEPT ![r] = "idle"]
    /\ request' = [request EXCEPT ![r] = NoRequest]
    /\ trip_request' = [trip_request EXCEPT ![r] = NoRequest]
    /\ state' = [state EXCEPT ![r] = NoState]
    /\ node' = [node EXCEPT ![r] = END]
    /\ executed' = [executed EXCEPT ![r] = <<>>]
    /\ calls' = [calls EXCEPT ![r] = 0]
    /\ completions' = [completions EXCEPT ![r] = <<>>]
    /\ failure' = [failure EXCEPT ![r] = NoFailure]
    /\ plan_outcome' = [plan_outcome EXCEPT ![r] = NoOutcome]
    /\ response' = [response EXCEPT ![r] = NoResponse]
    /\ call_log' = [call_log EXCEPT ![r] = <<>>]
    /\ UNCHANGED <<globals, tool_vars>>

\* The server as it runs: one request at a time.
Next ==
    \/ \E r \in Runs, q \in TripPlanRequests : CreateTripPlan(r, q, TRUE)
    \/ \E r \in Runs : PlanTripEnter(r)
    \/ \E r \in Runs : GraphCreate(r)
    \/ \E r \in Runs : StageEnter(r)
    \/ \E r \in Runs : LlmConstruct(r)
    \/ \E r \in Runs, t \in Texts : LlmInvokeOk(r, t)
    \/ \E r \in Runs, e \in Errors : LlmInvokeFail(r, e)
    \/ \E r \in Runs : Extract(r)
    \/ \E r \in Runs : HandlerFinish(r)
    \/ \E r \in Runs : Finish(r)

Spec == Init /\ [][Next]_vars

\* Requests handled by threads that interleave at every step.
NextConc ==
    \/ \E r \in Runs : \E q \in ConcRequests(r) : CreateTripPlan(r, q, FALSE)
    \/ \E r \in Runs : PlanTripEnter(r)
    \/ \E r \in Runs : GraphCreate(r)
    \/ \E r \in Runs : StageEnter(r)
    \/ \E r \in Runs : LlmConstruct(r)
    \/ \E r \in Runs : \E t \in ConcTexts(request[r].destination) : LlmInvokeOk(r, t)
    \/ \E r \in Runs, e \in ConcErrors : LlmInvokeFail(r, e)
    \/ \E r \in Runs : Extract(r)
    \/ \E r \in Runs : HandlerFinish(r)
    \/ \E r \in Runs : Finish(r)

SpecConc == Init /\ [][NextConc]_vars

\* The helper tools called on their own.
InitTools ==
    /\ settings_openai_api_key = TRUE
    /\ llm = 0
    /\ trip_planner_graph = 0
    /\ llm_built = 0
    /\ llm_returned = {}
    /\ graph_built = 0
    /\ pc = [r \in Runs |-> "idle"]
    /\ request = [r \in Runs |-> NoRequest]
    /\ trip_request = [r \in Runs |-> NoRequest]
    /\ state = [r \in Runs |-> NoState]
    /\ node = [r \in Runs |-> END]
    /\ executed = [r \in Runs |-> <<>>]
    /\ calls = [r \in Runs |-> 0]
    /\ completions = [r \in Runs |-> <<>>]
    /\ failure = [r \in Runs |-> NoFailure]
    /\ plan_outcome = [r \in Runs |-> NoOutcome]
    /\ response = [r \in Runs |-> NoResponse]
    /\ call_log = [r \in Runs |-> <<>>]
    /\ tool_args \in ToolInputs
    /\ tool_result = NoToolResult

FindAccommodations ==
    /\ tool_args.tool = "find_accommodations"
    /\ ~tool_result.returned
    /\ tool_result' = [returned |-> TRUE, error |-> "",
                       value |-> find_accommodations(tool_args.destination,
                                     tool_args.budget, tool_args.accommodation_type)]
    /\ UNCHANGED <<globals, pc, request, trip_request, state, node, executed, calls,
                   completions, failure, plan_outcome, response, call_log,
                   tool_args>>

\* A call of calculate_budget_breakdown returns or raises.
CalculateBudgetBreakdown ==
    /\ tool_args.tool = "calculate_budget_breakdown"
    /\ tool_result = NoToolResult
    /\ LET res == calculate_budget_breakdown(tool_args.budget, tool_args.duration,
                                             tool_args.destination)
       IN  tool_result' = [returned |-> res.error = "", error |-> res.error,
                           value |-> res.value]
    /\ UNCHANGED <<globals, pc, request, trip_request, state, node, executed, calls,
                   completions, failure, plan_outcome, response, call_log,
                   tool_args>>

GenerateItinerary ==
    /\ tool_args.tool = "generate_itinerary"
    /\ tool_result = NoToolResult
    /\ tool_result' = [returned |-> TRUE, error |-> "",
                       value |-> generate_itinerary(tool_args.destination,
                                     tool_args.duration, tool_args.interests,
                                     tool_args.budget)]
    /\ UNCHANGED <<globals, pc, request, trip_request, state, node, executed, calls,
                   completions, failure, plan_outcome, response, call_log,
                   tool_args>>

NextTools ==
    \/ FindAccommodations
    \/ CalculateBudgetBreakdown
    \/ GenerateItinerary

SpecTools == InitTools /\ [][NextTools]_vars

(***************************************************************************)
(* Properties                                                              *)
(***************************************************************************)
IsPrefix(s, t) == Len(s) <= Len(t) /\ \A i \in 1..Len(s) : s[i] = t[i]

\* The pipeline state of run r exists (from the start of the graph run until
\* the response is sent).
Live(r) == pc[r] \in {"stage", "llm_construct", "llm_invoke", "extract", "plan_exit"}
              \/ (pc[r] = "responded" /\ trip_request[r] # NoRequest)

\* In a call of its stage function, not yet returned (or failed in it).
InStage(r) == pc[r] \in {"llm_construct", "llm_invoke"} \/ failure[r] # NoFailure

StagesCompleted(r) == Len(executed[r]) - (IF InStage(r) THEN 1 ELSE 0)

\* C1: a run in which no completion call fails enters the five stages once
\* each, in the order research, budget, itinerary, accommodation, coordinator,
\* and then ends, whatever the completion texts say: the stages entered so far
\* are always a prefix of that order, the node to run next is the next of the
\* order, and when the graph has ended or plan_trip has returned, exactly the
\* five stages ran with five completion calls.
C1_StagesInFixedOrder ==
    \A r \in Runs :
        /\ IsPrefix(executed[r], StageOrder)
        /\ pc[r] = "stage" => /\ Len(executed[r]) < Len(StageOrder)
                              /\ node[r] = StageOrder[Len(executed[r]) + 1]
        /\ (pc[r] = "extract" \/ plan_outcome[r].kind = "returned")
              => /\ executed[r] = StageOrder
                 /\ calls[r] = Len(StageOrder)
                 /\ node[r] = END
        /\ (Live(r) /\ failure[r] = NoFailure /\ executed[r] = StageOrder /\ ~InStage(r))
              => pc[r] \in {"extract", "plan_exit", "responded"}

\* A run has returned although its second completion names the research
\* stage and its third the budget stage.
C1_Witness ==
    \E r \in Runs :
        /\ plan_outcome[r].kind = "returned"
        /\ completions[r][2].content = <<"Research", "notes">>
        /\ completions[r][3].content = <<"budget">>

\* C2: while a pipeline state exists, its message history is exactly the
\* completions returned to the run so far, in the order they were returned
\* (so nothing is removed, replaced or reordered), its length is the number
\* of stages completed, the i-th entry is the completion of the i-th stage,
\* and after the coordinator stage the length is 5.
C2_HistoryIsCompletions ==
    \A r \in Runs :
        Live(r) =>
            /\ state[r].messages = completions[r]
            /\ Len(state[r].messages) = StagesCompleted(r)
            /\ \A i \in 1..Len(state[r].messages) : state[r].messages[i].id = <<r, i>>
            /\ pc[r] = "stage" => Len(state[r].messages) = Len(executed[r])
            /\ pc[r] = "extract" => Len(state[r].messages) = 5

\* The coordinator stage has completed and the history holds five entries
\* that are not all the same text.
C2_Witness ==
    \E r \in Runs :
        /\ pc[r] = "extract"
        /\ Len(state[r].messages) = 5
        /\ state[r].messages[1].content # state[r].messages[5].content

\* C3: with no API credential configured, no slot ever starts the pipeline
\* (no state, no stage entered, no completion call, no client built), and the
\* handler ends with the HTTPException "OpenAI API key not configured", which
\* is not the outcome of any completion-service error.
C3_NoCredentialFailsFirst ==
    ~settings_openai_api_key =>
        /\ llm_built = 0
        /\ \A r \in Runs :
            /\ pc[r] \in {"idle", "responded"}
            /\ executed[r] = <<>>
            /\ calls[r] = 0
            /\ state[r] = NoState
            /\ pc[r] = "responded" =>
                  /\ response[r].kind = "raised"
                  /\ response[r].error.cls = "HTTPException"
                  /\ response[r].error.message = <<"OpenAI", "API", "key", "not", "configured">>
                  /\ \A e \in Errors : response[r] # HandlerExcept(e)

\* A request was answered with no credential configured.
C3_Witness ==
    /\ ~settings_openai_api_key
    /\ \E r \in Runs : pc[r] = "responded" /\ request[r] # NoRequest

\* C4: when the completion call of stage k fails, plan_trip ends by raising
\* that same error with no payload; k stages were entered, k completion calls
\* were made (no retry, no later stage), and the handler never answers with
\* success.
C4_FailurePropagates ==
    \A r \in Runs :
        failure[r] # NoFailure =>
            /\ pc[r] \in {"plan_exit", "responded"}
            /\ plan_outcome[r].kind = "raised"
            /\ plan_outcome[r].error = failure[r].error
            /\ plan_outcome[r].payload = NoPayload
            /\ failure[r].stage \in 1..5
            /\ calls[r] = failure[r].stage
            /\ executed[r] = SubSeq(StageOrder, 1, failure[r].stage)
            /\ Len(completions[r]) = failure[r].stage - 1
            /\ ~(response[r].kind = "response" /\ response[r].success)

\* The third stage's call failed and the handler has finished.
C4_Witness ==
    \E r \in Runs : failure[r].stage = 3 /\ pc[r] = "responded"

\* C5: a success response echoes the request: destination, duration, budget
\* and interests of its data are those of the request received.
C5_SuccessEchoesRequest ==
    \A r \in Runs :
        (response[r].kind = "response" /\ response[r].success) =>
            /\ response[r].data.destination = request[r].destination
            /\ response[r].data.duration = request[r].duration
            /\ response[r].data.budget = request[r].budget
            /\ response[r].data.interests = request[r].interests

\* A success response to a request with interests, after completions that
\* were not all empty.
C5_Witness ==
    \E r \in Runs :
        /\ response[r].kind = "response" /\ response[r].success
        /\ request[r].interests = <<"art", "food">>
        /\ request[r].destination = "Paris"
        /\ completions[r][1].content = <<"budget">>

\* C6: the summary of a returned payload is the text of the fifth completion
\* call of the run.
C6_SummaryIsCoordinatorText ==
    \A r \in Runs :
        /\ plan_outcome[r].kind = "returned" =>
              /\ Len(completions[r]) = 5
              /\ plan_outcome[r].payload.final_plan.summary = completions[r][5].content
        /\ (response[r].kind = "response" /\ response[r].success) =>
              response[r].data.final_plan.summary = completions[r][5].content

\* A payload was returned whose coordinator text is non-empty and differs
\* from the text of the stage before it.
C6_Witness ==
    \E r \in Runs :
        /\ plan_outcome[r].kind = "returned"
        /\ completions[r][5].content = <<"budget">>
        /\ completions[r][4].content = <<"Research", "notes">>
        /\ plan_outcome[r].payload.final_plan.summary # <<>>

\* C7: the handler answers success = false with the error's message exactly
\* when plan_trip raised a ValueError (or a subclass of it); the missing
\* credential and every other error leave the handler as an exception.
C7_OnlyValueErrorIsTranslated ==
    \A r \in Runs :
        pc[r] = "responded" =>
            /\ ~settings_openai_api_key =>
                  response[r].kind = "raised" /\ response[r].error.cls = "HTTPException"
            /\ (failure[r] # NoFailure /\ failure[r].error.cls \in {"ValueError", "JSONDecodeError"}) =>
                  /\ response[r].kind = "response"
                  /\ ~response[r].success
                  /\ response[r].message = failure[r].error.message
            /\ (failure[r] # NoFailure /\ failure[r].error.cls \notin {"ValueError", "JSONDecodeError"}) =>
                  /\ response[r].kind = "raised"
                  /\ response[r].error = failure[r].error
            /\ (response[r].kind = "response" /\ ~response[r].success) =>
                  failure[r].error.cls \in {"ValueError", "JSONDecodeError"}

\* The handler has let a rate-limit error of the second stage through.
C7_Witness ==
    \E r \in Runs :
        /\ pc[r] = "responded"
        /\ failure[r].stage = 2
        /\ failure[r].error.cls = "RateLimitError"
        /\ response[r].kind = "raised"

\* C8: with runs interleaved, the history of a run holds exactly the
\* completions returned to that run, its state carries its own request's
\* fields, its final plan is its own coordinator completion, and its payload
\* echoes its own request.
C8_RunsAreIsolated ==
    \A r \in Runs :
        /\ Live(r) =>
              /\ state[r].messages = completions[r]
              /\ \A i \in 1..Len(state[r].messages) : state[r].messages[i].id[1] = r
              /\ state[r].destination = request[r].destination
              /\ state[r].interests = request[r].interests
              /\ "final_plan" \in state[r].keys =>
                    state[r].final_plan.summary = completions[r][5].content
        /\ plan_outcome[r].kind = "returned" =>
              /\ plan_outcome[r].payload.destination = request[r].destination
              /\ plan_outcome[r].payload.final_plan.destination = request[r].destination
              /\ plan_outcome[r].payload.final_plan.summary = completions[r][5].content

\* Two runs for different destinations are both in the middle of the
\* pipeline, and one has returned while the other is still in its last stage.
C8_Witness ==
    \E a, b \in Runs :
        /\ a # b
        /\ request[a].destination # request[b].destination
        /\ plan_outcome[a].kind = "returned"
        /\ pc[b] = "llm_invoke" /\ Len(executed[b]) = 5
        /\ Len(state[a].messages) = 5

\* C9: the client constructor runs at most once and get_llm always returns
\* the same client.
C9_ClientBuiltAtMostOnce ==
    /\ llm_built <= 1
    /\ Cardinality(llm_returned) <= 1

\* C10: find_accommodations returns the two options of the tier the literal
\* thresholds select: below 1000 the budget tier, from 1000 and below 3000
\* the mid-range tier, from 3000 the luxury tier; the result is a function of
\* the budget alone.
C10_TierByThresholds ==
    (tool_result.returned /\ tool_args.tool = "find_accommodations") =>
        LET b == tool_args.budget
            v == tool_result.value
        IN  /\ Len(v) = 2
            /\ b < 100000 =>
                  v = <<[name |-> "Budget Hostel", price |-> b * 20, rating |-> 35],
                        [name |-> "Guesthouse", price |-> b * 25, rating |-> 40]>>
            /\ (100000 <= b /\ b < 300000) =>
                  v = <<[name |-> "3-Star Hotel", price |-> b * 30, rating |-> 42],
                        [name |-> "Boutique Hotel", price |-> b * 35, rating |-> 45]>>
            /\ b >= 300000 =>
                  v = <<[name |-> "5-Star Hotel", price |-> b * 50, rating |-> 48],
                        [name |-> "Luxury Resort", price |-> b * 60, rating |-> 49]>>

\* A budget of exactly 1000 got the mid-range tier.
C10_Witness ==
    /\ tool_result.returned
    /\ tool_args.tool = "find_accommodations"
    /\ tool_args.budget = 100000
    /\ tool_args.accommodation_type = "hostel"
    /\ tool_result.value[1].name = "3-Star Hotel"

\* x * k exactly, for a double x and a digit k
FTimes(x, k) == FCanon(BMulSmall(x.n, k), x.e)

\* x and y differ by at most y * 2^-51
FClose(x, y) ==
    LET e == FMin(x.e, y.e)
        a == BShl(x.n, x.e - e)
        b == BShl(y.n, y.e - e)
        d == IF BLeq(a, b) THEN BSub(b, a) ELSE BSub(a, b)
    IN  BLeq(BShl(d, 51), b)

\* The exact sum of the four amounts of a breakdown.
ExactTotal(v) ==
    LET s == FExactAdd(FExactAdd(v.accommodation, v.food),
                       FExactAdd(v.activities, v.transportation))
    IN  FCanon(s.n, s.e)

BreakdownReturned ==
    /\ tool_args.tool = "calculate_budget_breakdown"
    /\ tool_args.budget >= 0
    /\ tool_args.duration >= 1
    /\ tool_result.returned

\* C11 as stated: for budget >= 0 and duration >= 1 the four amounts are
\* exactly 40%, 30%, 20% and 10% of the budget and sum exactly to it,
\* total_budget is the budget and daily_budget times duration is the budget.
C11_ExactShares ==
    BreakdownReturned =>
        LET b == FromCents(tool_args.budget)
            v == tool_result.value
        IN  /\ FTimes(v.accommodation, 10) = FTimes(b, 4)
            /\ FTimes(v.food, 10) = FTimes(b, 3)
            /\ FTimes(v.activities, 10) = FTimes(b, 2)
            /\ FTimes(v.transportation, 10) = FTimes(b, 1)
            /\ ExactTotal(v) = b
            /\ v.total_budget = b
            /\ ~v.daily_budget.neg
            /\ FTimes(v.daily_budget.abs, tool_args.duration) = b

\* C11 amended: for budget >= 0 and duration >= 1 the four amounts are 40%,
\* 30%, 20% and 10% of the budget up to floating-point rounding (a relative
\* error of at most 2^-51), so is their sum the budget and daily_budget times
\* duration the budget; total_budget is the budget exactly; the result is a
\* function of budget and duration alone.
C11_SharesWithinRounding ==
    BreakdownReturned =>
        LET b == FromCents(tool_args.budget)
            v == tool_result.value
        IN  /\ FClose(FTimes(v.accommodation, 10), FTimes(b, 4))
            /\ FClose(FTimes(v.food, 10), FTimes(b, 3))
            /\ FClose(FTimes(v.activities, 10), FTimes(b, 2))
            /\ FClose(FTimes(v.transportation, 10), FTimes(b, 1))
            /\ FClose(ExactTotal(v), b)
            /\ v.total_budget = b
            /\ ~v.daily_budget.neg
            /\ FClose(FTimes(v.daily_budget.abs, tool_args.duration), b)
            /\ tool_result.error = ""

\* A breakdown of 999.99 over 3 days was returned whose amounts do not sum
\* exactly to the budget.
C11_Witness ==
    /\ BreakdownReturned
    /\ tool_args.budget = 99999
    /\ tool_args.duration = 3
    /\ tool_args.destination = "Tokyo"
    /\ ExactTotal(tool_result.value) # FromCents(99999)

ItineraryReturned ==
    /\ tool_args.tool = "generate_itinerary"
    /\ tool_args.duration >= 1
    /\ tool_result.returned

\* C12: for duration d >= 1 generate_itinerary returns d entries with day
\* numbers 1, 2, ..., d in this order; every entry has the same estimated
\* cost, the double (budget / d) * 0.3, which is 30% of the per-day budget up
\* to rounding; the afternoon slot names the first interest, or the fallback
\* phrase "local culture" when there is none.
C12_OneEntryPerDay ==
    ItineraryReturned =>
        LET d == tool_args.duration
            b == FromCents(tool_args.budget)
            v == tool_result.value
        IN  /\ Len(v) = d
            /\ \A i \in 1..Len(v) :
                /\ v[i].day = i
                /\ v[i].estimated_cost = v[1].estimated_cost
                /\ v[i].estimated_cost = FMul(FDivInt(b, d), FromTenths(3))
                /\ FClose(FTimes(FTimes(v[i].estimated_cost, 10), d), FTimes(b, 3))
                /\ v[i].afternoon =
                      IF tool_args.interests = <<>> THEN <<"Enjoy", "local culture">>
                      ELSE <<"Enjoy", Head(tool_args.interests)>>

\* A three-day itinerary with two interests was returned; its last entry is
\* day 3 and names the first interest.
C12_Witness ==
    /\ ItineraryReturned
    /\ tool_args.duration = 3
    /\ tool_args.interests = <<"art", "food">>
    /\ tool_args.budget = 99999
    /\ tool_result.value[3].day = 3
    /\ tool_result.value[3].afternoon = <<"Enjoy", "art">>

\* C13: a request whose duration is zero or negative never ends in a success
\* payload: plan_trip does not return for it and the handler does not answer
\* success.
C13_NonPositiveDurationFails ==
    \A r \in Runs :
        (pc[r] # "idle" /\ request[r].duration <= 0) =>
            /\ plan_outcome[r].kind # "returned"
            /\ ~(response[r].kind = "response" /\ response[r].success)

\* C14: while the pipeline state of a run exists, its destination, duration,
\* budget and interests are those of the request, it holds no key besides
\* these, the history and (once written) the final plan, and the final plan
\* is absent until the coordinator stage has completed and is then the
\* coordinator's completion.
C14_StagesOnlyAppend ==
    \A r \in Runs :
        Live(r) =>
            /\ state[r].destination = request[r].destination
            /\ state[r].duration = request[r].duration
            /\ state[r].budget = request[r].budget
            /\ state[r].interests = request[r].interests
            /\ state[r].keys \ {"final_plan"} =
                  {"messages", "destination", "duration", "budget", "interests"}
            /\ "final_plan" \in state[r].keys <=> Len(completions[r]) = 5
            /\ "final_plan" \in state[r].keys =>
                  /\ executed[r][Len(executed[r])] = "coordinator_agent"
                  /\ state[r].final_plan = [keys |-> {"summary"},
                                            summary |-> completions[r][5].content]

\* The coordinator stage is in its completion call after four stages have
\* completed, and the state holds no final plan yet.
C14_Witness ==
    \E r \in Runs :
        /\ pc[r] = "llm_invoke"
        /\ node[r] = "coordinator_agent"
        /\ Len(state[r].messages) = 4
        /\ "final_plan" \notin state[r].keys
        /\ request[r].duration = 3

\* C15: each stage makes exactly one completion call, and the k-th call
\* carries the k-th stage's system instruction followed by exactly the k-1
\* completions of the earlier stages in stage order; the history holds
\* completions only, never an instruction.
C15_CallCarriesInstructionThenHistory ==
    \A r \in Runs :
        Live(r) =>
            /\ Len(call_log[r]) = calls[r]
            /\ calls[r] = IF pc[r] \in {"llm_construct", "llm_invoke"}
                          THEN Len(executed[r]) - 1 ELSE Len(executed[r])
            /\ \A k \in 1..Len(call_log[r]) :
                  /\ Head(call_log[r][k]) =
                        SystemMessage(SystemPrompt(StageOrder[k],
                                                   InitialState(trip_request[r])))
                  /\ Tail(call_log[r][k]) = SubSeq(completions[r], 1, k - 1)
            /\ \A i \in 1..Len(state[r].messages) : state[r].messages[i].type = "ai"
            /\ state[r].messages = completions[r]

\* A run whose coordinator call was made with the four earlier completions,
\* not all of them empty.
C15_Witness ==
    \E r \in Runs :
        /\ Live(r)
        /\ Len(call_log[r]) = 5
        /\ Len(call_log[r][5]) = 5
        /\ \E i \in 2..5 : call_log[r][5][i].content # <<>>

StructuredFields == {"itinerary", "accommodation", "transportation",
                     "budget_breakdown", "recommendations", "tips"}

\* C16: no stage calls a helper function or writes a structured field, so in
\* every returned payload the final plan's itinerary, accommodation,
\* transportation, budget_breakdown, recommendations and tips are the empty
\* defaults, and the five progress messages are the fixed strings built from
\* the request alone, whatever the completions were.
C16_StructuredFieldsStayDefault ==
    \A r \in Runs :
        /\ Live(r) => /\ state[r].keys \cap StructuredFields = {}
                      /\ tool_args = NoToolArgs
                      /\ tool_result = NoToolResult
        /\ plan_outcome[r].kind = "returned" =>
              LET payload == plan_outcome[r].payload
              IN  /\ payload.final_plan.itinerary = <<>>
                  /\ payload.final_plan.accommodation = EmptyDict
                  /\ payload.final_plan.transportation = EmptyDict
                  /\ payload.final_plan.budget_breakdown = EmptyDict
                  /\ payload.final_plan.recommendations = <<>>
                  /\ payload.final_plan.tips = <<>>
                  /\ payload.messages = ProgressMessages(request[r])
        /\ (response[r].kind = "response" /\ response[r].success) =>
              /\ response[r].data.final_plan.itinerary = <<>>
              /\ response[r].data.final_plan.tips = <<>>
              /\ response[r].data.messages = ProgressMessages(request[r])

\* A success response to a hostel request whose completions all had text.
C16_Witness ==
    \E r \in Runs :
        /\ response[r].kind = "response" /\ response[r].success
        /\ request[r].accommodation_type = "hostel"
        /\ request[r].budget = 99999
        /\ Len(completions[r]) = 5
        /\ \A i \in 1..5 : completions[r][i].content # <<>>
        /\ response[r].data.messages[2] =
              <<"Budget", "analysis", "completed", "for", "$999.99">>

====
